---------------------------- MODULE Spec2Model ----------------------------
(***************************************************************************)
(* Model of scripts/generate_progress_table.py: the iP progress dashboard  *)
(* generator.  One run of main() loads the task definition table and the   *)
(* student progress table, warns about undefined task columns, collects    *)
(* the visible tasks per category, renders one row of badges per student   *)
(* and writes the report.                                                  *)
(*                                                                         *)
(* Time is counted in minutes.  The variable now is the wall-clock reading *)
(* of the Asia/Singapore clock (UTC+8); a due date is the naive wall-clock *)
(* value parsed from the 'Due Date' column.  Task names are integers, so   *)
(* that "sorted by name" is a definite order.                              *)
(***************************************************************************)
EXTENDS Integers, Sequences, FiniteSets, TLC

(* ------------------------------ bounds -------------------------------- *)
MaxTasks == 2        \* rows of data/task_definitions.csv
MaxStudents == 2     \* data rows of data/student_progress.csv
MaxTicks == 1        \* minutes the clock may advance during one run
MaxMarkerLen == 2    \* characters of a completion marker given to get_badge_html

(* ------------------------- program constants -------------------------- *)
MinutesPerDay == 1440
ShowDays == 5        \* timedelta(days=5) in should_show_task
SGTOffset == 480     \* utcoffset of datetime.now(pytz.timezone('Asia/Singapore'))
LMTOffset == 415     \* utcoffset of naive.replace(tzinfo=pytz.timezone('Asia/Singapore')): LMT+6:55
FullNameCol == -1    \* the column 'Full Name'
StudentIdCol == 0    \* the column 'Student ID'

(* The 7 day window of the written visibility policy, in minutes.         *)
SpecWindow == 7 * MinutesPerDay

TaskTypes == {"Weekly", "Increment", "Admin"}
OtherType == "Bonus"                 \* a 'Task Type' outside the three branches
IdentityCols == {FullNameCol, StudentIdCol}

(* Names of the task columns.  Row i of the definition table is named      *)
(* TaskNameAt(i): the names descend, so file order is not name order.      *)
TaskNames == 1..MaxTasks
TaskNameAt(i) == MaxTasks + 1 - i

(* Due dates, relative to the clock reading 0 at the start of the run:     *)
(*   PastDue     already past, by exactly the skew between the two offsets *)
(*               the code attaches to now and to due_date;                 *)
(*   EdgeDue     one minute outside the window should_show_task computes   *)
(*               at the clock reading 0, inside it from the reading 1 on;  *)
(*   FarDue      one minute further than 7 days from the reading 0,        *)
(*               exactly 7 days from the reading 1.                        *)
PastDue == LMTOffset - SGTOffset
EdgeDue == ShowDays * MinutesPerDay - (SGTOffset - LMTOffset) + 1
FarDue == SpecWindow + 1
DueDates == {PastDue, EdgeDue, FarDue}

(* The rows a run's definition table is drawn from. *)
RunDueDates == DueDates
RunOptional == {FALSE}

(* --------------------------- time arithmetic -------------------------- *)
(* An aware datetime is a wall-clock value with a UTC offset.              *)
Aware(wall, offset) == [wall |-> wall, offset |-> offset]
Utc(dt) == dt.wall - dt.offset

(* datetime.now(pytz.timezone('Asia/Singapore')): localized to +08:00.     *)
NowSingapore(clock) == Aware(clock, SGTOffset)

(* naive.replace(tzinfo=pytz.timezone('Asia/Singapore')): pytz attaches    *)
(* the zone's first (LMT) offset, it does not localize.                    *)
ReplaceTz(due) == Aware(due, LMTOffset)

(* timedelta addition keeps the tzinfo.                                    *)
PlusDays(dt, days) == Aware(dt.wall + days * MinutesPerDay, dt.offset)

(* Comparison of aware datetimes with different tzinfo objects: by UTC.    *)
Leq(a, b) == Utc(a) <= Utc(b)
Gt(a, b) == Utc(a) > Utc(b)

(* should_show_task(task_info), with the clock reading made explicit.      *)
should_show_task_ten_days(task_info, clock) ==
    Leq(ReplaceTz(task_info.due_date), PlusDays(NowSingapore(clock), 2 * ShowDays))
should_show_task(task_info, clock) ==
    Leq(ReplaceTz(task_info.due_date), PlusDays(NowSingapore(clock), ShowDays))

(* ----------------------- completion markers --------------------------- *)
(* A marker is None or a string; a string is a sequence of characters.     *)
MarkerChars == {"0", "1", " "}
None == [present |-> FALSE, text |-> <<>>]
Str(s) == [present |-> TRUE, text |-> s]

RECURSIVE SeqsUpTo(_, _)
SeqsUpTo(S, n) ==
    IF n = 0 THEN {<<>>}
    ELSE LET shorter == SeqsUpTo(S, n - 1)
         IN  shorter \cup {Append(s, c) : s \in shorter, c \in S}

Markers == {None} \cup {Str(s) : s \in SeqsUpTo(MarkerChars, MaxMarkerLen)}
CellMarkers == {None, Str(<<"1">>)}

RECURSIVE LStrip(_)
LStrip(s) == IF s # <<>> /\ Head(s) = " " THEN LStrip(Tail(s)) ELSE s

RECURSIVE RStrip(_)
RStrip(s) ==
    IF s # <<>> /\ s[Len(s)] = " " THEN RStrip(SubSeq(s, 1, Len(s) - 1)) ELSE s

(* str.strip() *)
StripNothing(s) == s
Strip(s) == RStrip(LStrip(s))

(* line 47: str(is_completed).strip() if is_completed is not None else '0' *)
NormalizeMarker(m) == IF m.present THEN Strip(m.text) ELSE <<"0">>

(* line 49 and line 60: is_completed == '1' *)
IsCompleted(m) == NormalizeMarker(m) = <<"1">>

(* line 43: is_overdue = now > due_date *)
IsOverdue(task_info, clock) ==
    Gt(NowSingapore(clock), ReplaceTz(task_info.due_date))

(* lines 49-58: the badge class *)
BadgeClassOptionalFirst(completed, is_optional, is_overdue) ==
    IF completed THEN (IF is_optional THEN "bg-info" ELSE "bg-success")
    ELSE IF is_optional THEN "bg-secondary"
    ELSE IF is_overdue THEN "bg-danger" ELSE "bg-dark"
BadgeClass(completed, is_optional, is_overdue) ==
    IF completed THEN (IF is_optional THEN "bg-info" ELSE "bg-success")
    ELSE IF is_overdue THEN "bg-danger"
    ELSE IF is_optional THEN "bg-secondary" ELSE "bg-dark"

(* get_badge_html(task_name, is_completed, task_info); the span is kept as *)
(* its class and its text, the text as the '!' prefix and the task name.   *)
get_badge_html(task_name, is_completed, task_info, clock) ==
    [ cls    |-> BadgeClass(IsCompleted(is_completed), task_info.is_optional,
                            IsOverdue(task_info, clock)),
      strike |-> ~IsCompleted(is_completed),
      name   |-> task_name ]

(* ------------------------------- state -------------------------------- *)
VARIABLES
    pc,               \* position of main()
    defFile,          \* rows of data/task_definitions.csv read so far
    tasks,            \* the dict returned by read_task_definitions
    headers,          \* task columns of data/student_progress.csv
    students,         \* the list returned by read_student_progress
    now,              \* reading of the Singapore wall clock, in minutes
    warnings,         \* the "Warning: Task ..." lines printed, in order
    weekly_tasks, increment_tasks, admin_tasks,   \* the first pass's lists
    i,                \* loop index of the loop main() is in
    output,           \* student rows appended to output so far
    report,           \* contents/cs2103/ip-progress-table-fragment.md
    call,             \* arguments of a direct call of a policy function
    ret               \* what that call returned

vars == << pc, defFile, tasks, headers, students, now, warnings,
           weekly_tasks, increment_tasks, admin_tasks, i, output, report,
           call, ret >>

NoCall == [ name |-> 0, marker |-> None, is_optional |-> FALSE,
            due_date |-> 0, clock |-> 0 ]
NoBadge == [cls |-> "", strike |-> FALSE, name |-> 0]

(* ---------------------- the two input tables -------------------------- *)
(* A row of the definition table after .strip() of each field.  date_ok    *)
(* and week_ok say whether strptime and int accept the field.              *)
DefRow(n, t, o, d, dok, wok) ==
    [ name |-> n, type |-> t, is_optional |-> o, due_date |-> d,
      date_ok |-> dok, week_ok |-> wok ]

GoodRows(n) ==
    { DefRow(n, t, o, d, TRUE, TRUE) :
        t \in TaskTypes \cup {OtherType}, o \in RunOptional, d \in RunDueDates }

BadRows(n) ==
    { DefRow(n, "Weekly", FALSE, 0, FALSE, TRUE),
      DefRow(n, "Weekly", FALSE, 0, TRUE, FALSE) }

(* lines 13-18: the value stored for a row *)
TaskInfo(row) ==
    [ type |-> row.type, is_optional |-> row.is_optional,
      due_date |-> row.due_date ]

(* a dict assignment d[k] = v *)
DictPut(d, k, v) ==
    [ x \in DOMAIN d \cup {k} |-> IF x = k THEN v ELSE d[x] ]

EmptyDict == [ x \in {} |-> 0 ]

(* the keys of one student's DictReader row *)
StudentKeys(s) == IdentityCols \cup DOMAIN s.cells

(* the clock readings a step may take: time does not run backwards *)
ClockReadings == { t \in {now, now + 1} : t <= MaxTicks }

(* sorted(S) for a set of task names *)
RECURSIVE Sorted(_)
Sorted(S) ==
    IF S = {} THEN <<>>
    ELSE LET m == CHOOSE x \in S : \A y \in S : x <= y
         IN  <<m>> \o Sorted(S \ {m})

(* ------------------------------- Init --------------------------------- *)
InitData ==
    /\ defFile = <<>>
    /\ tasks = EmptyDict
    /\ headers = {}
    /\ students = <<>>
    /\ now = 0
    /\ warnings = <<>>
    /\ weekly_tasks = <<>>
    /\ increment_tasks = <<>>
    /\ admin_tasks = <<>>
    /\ i = 1
    /\ output = <<>>
    /\ report = [opened |-> FALSE, rows |-> <<>>]

Init ==
    /\ pc = "read_defs"
    /\ InitData
    /\ call = NoCall
    /\ ret = NoBadge

(* ------------------- read_task_definitions, lines 6-19 ---------------- *)
(* One iteration of the reader loop: strptime or int raise ValueError on a *)
(* malformed field and the run ends before anything else happens; the      *)
(* 'Task Type' is stored as it is.                                         *)
ReadTaskRow ==
    /\ pc = "read_defs"
    /\ Len(defFile) < MaxTasks
    /\ \E row \in GoodRows(TaskNameAt(Len(defFile) + 1))
                  \cup BadRows(TaskNameAt(Len(defFile) + 1)) :
          /\ defFile' = Append(defFile, row)
          /\ IF row.date_ok /\ row.week_ok
             THEN /\ tasks' = DictPut(tasks, row.name, TaskInfo(row))
                  /\ pc' = pc
             ELSE /\ tasks' = tasks
                  /\ pc' = "failed"
    /\ UNCHANGED << headers, students, now, warnings, weekly_tasks,
                    increment_tasks, admin_tasks, i, output, report, call, ret >>

EndTaskRows ==
    /\ pc = "read_defs"
    /\ pc' = "read_header"
    /\ UNCHANGED << defFile, tasks, headers, students, now, warnings,
                    weekly_tasks, increment_tasks, admin_tasks, i, output,
                    report, call, ret >>

(* ------------------- read_student_progress, lines 21-29 --------------- *)
ReadHeader ==
    /\ pc = "read_header"
    /\ \E H \in SUBSET TaskNames : headers' = H
    /\ pc' = "read_students"
    /\ UNCHANGED << defFile, tasks, students, now, warnings, weekly_tasks,
                    increment_tasks, admin_tasks, i, output, report, call, ret >>

(* One data row.  csv.DictReader gives every row all the header keys, None *)
(* for the cells a short row lacks, and the key None (extra) to a row with *)
(* more cells than the header.                                             *)
ReadStudentRow ==
    /\ pc = "read_students"
    /\ Len(students) < MaxStudents
    /\ \E m \in CellMarkers,
          extra \in IF students = <<>> THEN BOOLEAN ELSE {FALSE} :
          students' = Append(students,
              [ id |-> Len(students) + 1, cells |-> [h \in headers |-> m],
                extra |-> extra ])
    /\ UNCHANGED << pc, defFile, tasks, headers, now, warnings, weekly_tasks,
                    increment_tasks, admin_tasks, i, output, report, call, ret >>

EndStudentRows ==
    /\ pc = "read_students"
    /\ pc' = "check_undefined"
    /\ UNCHANGED << defFile, tasks, headers, students, now, warnings,
                    weekly_tasks, increment_tasks, admin_tasks, i, output,
                    report, call, ret >>

(* ------------------------- main, lines 143-148 ------------------------ *)
(* The undefined-task check looks at the first student only; sorted() of   *)
(* keys that include None raises TypeError.                                *)
UndefinedColumnsReversed(s) ==
    { c \in DOMAIN tasks : c \notin StudentKeys(s) }
UndefinedColumns(s) ==
    { c \in StudentKeys(s) : c \notin DOMAIN tasks /\ c \notin IdentityCols }

CheckUndefined ==
    /\ pc = "check_undefined"
    /\ IF students # <<>> /\ students[1].extra
       THEN /\ pc' = "failed"
            /\ warnings' = warnings
       ELSE /\ pc' = "collect"
            /\ warnings' = IF students # <<>>
                           THEN Sorted(UndefinedColumns(students[1]))
                           ELSE <<>>
    /\ i' = 1
    /\ UNCHANGED << defFile, tasks, headers, students, now, weekly_tasks,
                    increment_tasks, admin_tasks, output, report, call, ret >>

(* ----------------- generate_progress_table, lines 73-126 -------------- *)
(* lines 94, 96, 98: weekly_tasks.append((task_name, task_info)); the list *)
(* keeps the name, task_info is tasks[task_name].                          *)
RECURSIVE AddTaskSortedByName(_, _)
AddTaskSortedByName(list, task_name) ==
    IF list = <<>> \/ task_name < Head(list)
    THEN <<task_name>> \o list
    ELSE <<Head(list)>> \o AddTaskSortedByName(Tail(list), task_name)

AddTask(list, task_name) == Append(list, task_name)

(* lines 89-98: one row of the first pass.  The definition file is read    *)
(* again; a row is collected under its type's list when its name is a key  *)
(* of tasks and should_show_task accepts it at the clock reading taken.    *)
CollectTask ==
    /\ pc = "collect"
    /\ i <= Len(defFile)
    /\ \E t \in ClockReadings :
          /\ now' = t
          /\ LET task_name == defFile[i].name
                 shown == /\ task_name \in DOMAIN tasks
                          /\ should_show_task(tasks[task_name], t)
                 type == IF shown THEN tasks[task_name].type ELSE ""
             IN  /\ weekly_tasks' = IF type = "Weekly"
                                    THEN AddTask(weekly_tasks, task_name)
                                    ELSE weekly_tasks
                 /\ increment_tasks' = IF type = "Increment"
                                       THEN AddTask(increment_tasks, task_name)
                                       ELSE increment_tasks
                 /\ admin_tasks' = IF type = "Admin"
                                   THEN AddTask(admin_tasks, task_name)
                                   ELSE admin_tasks
    /\ i' = i + 1
    /\ UNCHANGED << pc, defFile, tasks, headers, students, warnings, output,
                    report, call, ret >>

EndCollect ==
    /\ pc = "collect"
    /\ i > Len(defFile)
    /\ pc' = "render"
    /\ i' = 1
    /\ UNCHANGED << defFile, tasks, headers, students, now, warnings,
                    weekly_tasks, increment_tasks, admin_tasks, output, report,
                    call, ret >>

(* the tasks of defFile of one type that should_show_task accepts at clock *)
RECURSIVE ShownNow(_, _, _)
ShownNow(rows, type, clock) ==
    IF rows = <<>> THEN <<>>
    ELSE LET n == Head(rows).name
             rest == ShownNow(Tail(rows), type, clock)
         IN  IF /\ n \in DOMAIN tasks
                /\ tasks[n].type = type
                /\ should_show_task(tasks[n], clock)
             THEN <<n>> \o rest ELSE rest

(* lines 106, 112, 118: the list a student's loop iterates is the first    *)
(* pass's list, whatever the clock reads by now.                           *)
TasksForRowRecomputed(list, type, clock) == ShownNow(defFile, type, clock)
TasksForRow(list, type, clock) == list

(* lines 107, 113, 119: if task_name in student *)
HasColumn(student, task_name) == task_name \in StudentKeys(student)

(* lines 106-109 (and 112-115, 118-121): the badges of one category *)
RECURSIVE Badges(_, _, _)
Badges(list, student, clock) ==
    IF list = <<>> THEN <<>>
    ELSE LET task_name == Head(list)
             rest == Badges(Tail(list), student, clock)
         IN  IF HasColumn(student, task_name)
             THEN << get_badge_html(task_name, student.cells[task_name],
                                    tasks[task_name], clock) >> \o rest
             ELSE rest

(* line 123: the student's row *)
StudentRow(student, clock) ==
    [ id        |-> student.id,
      weekly    |-> Badges(TasksForRow(weekly_tasks, "Weekly", clock),
                           student, clock),
      increment |-> Badges(TasksForRow(increment_tasks, "Increment", clock),
                           student, clock),
      admin     |-> Badges(TasksForRow(admin_tasks, "Admin", clock),
                           student, clock) ]

(* lines 100-124: one iteration of the loop over the students *)
RenderRow ==
    /\ pc = "render"
    /\ i <= Len(students)
    /\ \E t \in ClockReadings :
          /\ now' = t
          /\ output' = Append(output, StudentRow(students[i], t))
    /\ i' = i + 1
    /\ UNCHANGED << pc, defFile, tasks, headers, students, warnings,
                    weekly_tasks, increment_tasks, admin_tasks, report,
                    call, ret >>

(* lines 126 and 151-156: the document is joined and written *)
WriteReport ==
    /\ pc = "render"
    /\ i > Len(students)
    /\ report' = [opened |-> TRUE, rows |-> output]
    /\ pc' = "done"
    /\ UNCHANGED << defFile, tasks, headers, students, now, warnings,
                    weekly_tasks, increment_tasks, admin_tasks, i, output,
                    call, ret >>

Next ==
    \/ ReadTaskRow
    \/ EndTaskRows
    \/ ReadHeader
    \/ ReadStudentRow
    \/ EndStudentRows
    \/ CheckUndefined
    \/ CollectTask
    \/ EndCollect
    \/ RenderRow
    \/ WriteReport

Spec == Init /\ [][Next]_vars

(* -------- get_badge_html called on its own, inputs from small sets ----- *)
Calls ==
    [ name : TaskNames, marker : Markers, is_optional : BOOLEAN,
      due_date : DueDates, clock : 0..MaxTicks ]

InitBadge ==
    /\ pc = "call"
    /\ InitData
    /\ call \in Calls
    /\ ret = NoBadge

CallGetBadge ==
    /\ pc = "call"
    /\ ret' = get_badge_html(call.name, call.marker,
                  [is_optional |-> call.is_optional, due_date |-> call.due_date],
                  call.clock)
    /\ pc' = "returned"
    /\ UNCHANGED << defFile, tasks, headers, students, now, warnings,
                    weekly_tasks, increment_tasks, admin_tasks, i, output,
                    report, call >>

NextBadge == CallGetBadge

SpecBadge == InitBadge /\ [][NextBadge]_vars

(* ====================== properties of the program ===================== *)
Range(seq) == { seq[k] : k \in 1..Len(seq) }
NamesOf(badges) == [ k \in 1..Len(badges) |-> badges[k].name ]
RowBadges(row) == row.weekly \o row.increment \o row.admin
HasBadge(row, n) == n \in Range(NamesOf(RowBadges(row)))
AllRows == Range(output) \cup Range(report.rows)
Collected ==
    Range(weekly_tasks) \cup Range(increment_tasks) \cup Range(admin_tasks)
DefIndex(n) == CHOOSE k \in 1..Len(defFile) : defFile[k].name = n
InDefOrder(names) ==
    \A a, b \in 1..Len(names) : a < b => DefIndex(names[a]) < DefIndex(names[b])
Malformed(row) == ~row.date_ok \/ ~row.week_ok
AfterCheck == pc \in {"collect", "render", "done"}
UndefinedCols ==
    IF pc \in {"read_defs", "read_header"} THEN {} ELSE headers \ DOMAIN tasks
CompletedClasses == {"bg-info", "bg-success"}
CallInfo == [is_optional |-> call.is_optional, due_date |-> call.due_date]

(* C1: every defined task with due_at <= now + 7 days (both read as UTC+8  *)
(* wall-clock times) is included in the report, a task due exactly at      *)
(* now + 7 days too.  Stated of the first pass, whose lists are the only   *)
(* tasks a row can show: the row of a recognised category that the pass    *)
(* has just examined at the clock reading now is in one of the lists.      *)
C1_VisibleWithinSevenDays ==
    (pc = "collect" /\ i > 1) =>
        LET n == defFile[i - 1].name
        IN  ( /\ n \in DOMAIN tasks
              /\ tasks[n].type \in TaskTypes
              /\ tasks[n].due_date <= now + SpecWindow )
            => n \in Collected

(* C2: no badge of a task with due_at > now + 7 days appears in any        *)
(* student's row, neither in the rows rendered so far nor in the written   *)
(* report, whatever the student's marker.  now is the current clock        *)
(* reading, which is no earlier than any reading the run has taken.        *)
C2_NoBadgeBeyondSevenDays ==
    \A n \in DOMAIN tasks :
        tasks[n].due_date > now + SpecWindow =>
            \A row \in AllRows : ~HasBadge(row, n)

C2_Witness ==
    /\ pc = "done"
    /\ Len(report.rows) >= 1
    /\ \E n \in DOMAIN tasks \cap headers :
          /\ tasks[n].type \in TaskTypes
          /\ tasks[n].due_date > now + SpecWindow
    /\ \E row \in Range(report.rows) : RowBadges(row) # <<>>

(* C3: get_badge_html follows the classification table for every           *)
(* (completed, is_optional, overdue): completed gives bg-info (optional)   *)
(* or bg-success (required) and the bare name; not completed and overdue   *)
(* gives bg-danger whatever the optionality; not completed and not overdue *)
(* gives bg-secondary (optional) or bg-dark (required); the '!' marker is  *)
(* there exactly when the task is not completed.                           *)
C3_BadgeMatchesTable ==
    pc = "returned" =>
        LET completed == IsCompleted(call.marker)
            optional == call.is_optional
            overdue == IsOverdue(CallInfo, call.clock)
        IN  /\ ret.name = call.name
            /\ ret.strike <=> ~completed
            /\ (completed /\ optional) => ret.cls = "bg-info"
            /\ (completed /\ ~optional) => ret.cls = "bg-success"
            /\ (~completed /\ overdue) => ret.cls = "bg-danger"
            /\ (~completed /\ ~overdue /\ optional) => ret.cls = "bg-secondary"
            /\ (~completed /\ ~overdue /\ ~optional) => ret.cls = "bg-dark"

C3_Witness ==
    /\ pc = "returned"
    /\ ~IsCompleted(call.marker)
    /\ call.is_optional
    /\ IsOverdue(CallInfo, call.clock)
    /\ ret.cls = "bg-danger"
    /\ ret.strike

(* C4: a student record with no column for a defined, visible task still   *)
(* gets a badge for it in its row: every row of the written report has a   *)
(* badge for every task the first pass collected.                          *)
C4_MissingColumnStillBadged ==
    pc = "done" =>
        \A row \in Range(report.rows) : \A n \in Collected : HasBadge(row, n)

(* C5: a malformed definition row of any of the three kinds (bad due date, *)
(* non-integer week number, task type outside Weekly/Increment/Admin)      *)
(* makes the run fail before the output file is opened.                    *)
C5_MalformedRowWritesNothing ==
    (\E k \in 1..Len(defFile) :
        Malformed(defFile[k]) \/ defFile[k].type \notin TaskTypes)
    => (pc # "done" /\ ~report.opened)

(* C6: the output rows are the students in input order, one row each, and  *)
(* in every category column the badges are that category's tasks in the    *)
(* order of the definition table.                                          *)
C6_RowsAndBadgesInSourceOrder ==
    /\ Len(output) <= Len(students)
    /\ \A k \in 1..Len(output) : output[k].id = students[k].id
    /\ pc = "done" => (report.rows = output /\ Len(output) = Len(students))
    /\ \A row \in AllRows :
          /\ InDefOrder(NamesOf(row.weekly))
          /\ InDefOrder(NamesOf(row.increment))
          /\ InDefOrder(NamesOf(row.admin))
          /\ \A n \in Range(NamesOf(row.weekly)) : tasks[n].type = "Weekly"
          /\ \A n \in Range(NamesOf(row.increment)) : tasks[n].type = "Increment"
          /\ \A n \in Range(NamesOf(row.admin)) : tasks[n].type = "Admin"

C6_Witness ==
    /\ pc = "done"
    /\ Len(report.rows) = 2
    /\ \E row \in Range(report.rows) :
          Len(row.weekly) >= 2 \/ Len(row.increment) >= 2 \/ Len(row.admin) >= 2

C8_CompletedIffTrimmedOne ==
    pc = "returned" =>
        LET text == call.marker.text
            trimmedOne ==
                /\ call.marker.present
                /\ \E k \in 1..Len(text) :
                      /\ text[k] = "1"
                      /\ \A j \in 1..Len(text) : j # k => text[j] = " "
        IN  /\ (ret.cls \in CompletedClasses) <=> trimmedOne
            /\ ret.strike <=> ~trimmedOne

C8_Witness ==
    /\ pc = "returned"
    /\ call.marker.present
    /\ Len(call.marker.text) >= 2
    /\ ret.cls \in CompletedClasses
    /\ ~ret.strike

(* C9: an incomplete task is overdue if and only if the clock, as UTC+8    *)
(* wall-clock time, is strictly later than due_at read as UTC+8 wall-clock *)
(* time.                                                                   *)
C9_OverdueIffPastDueUTC8 ==
    (pc = "returned" /\ ret.strike) =>
        (ret.cls = "bg-danger" <=> call.clock > call.due_date)

(* C10: the visible tasks are fixed before the first row is rendered, so   *)
(* every row carries the same task names in each category column however   *)
(* the clock moves between rows: the names of the tasks collected that are *)
(* columns of the student table.                                           *)
C10_SameTasksInEveryRow ==
    \A row \in AllRows :
        LET shown(list) == SelectSeq(list, LAMBDA n : n \in headers)
        IN  /\ NamesOf(row.weekly) = shown(weekly_tasks)
            /\ NamesOf(row.increment) = shown(increment_tasks)
            /\ NamesOf(row.admin) = shown(admin_tasks)

C10_Witness ==
    /\ pc = "done"
    /\ Len(report.rows) = 2
    /\ RowBadges(report.rows[1]) # <<>>
    /\ report.rows[1] # [report.rows[2] EXCEPT !.id = 1]
    /\ \E n \in (DOMAIN tasks \cap headers) \ Collected :
          /\ tasks[n].type \in TaskTypes
          /\ should_show_task(tasks[n], now)

=============================================================================
